---- MODULE Spec2Model ----
(***************************************************************************)
(* The crawl-and-diff pipeline of the job change tracker.                  *)
(*                                                                         *)
(*   src/.github/workflows/app.py   JobChange, save_job_changes,           *)
(*                                  process_changes, show_scrape_page      *)
(*   src/run_scraper.py             the same save_job_changes and          *)
(*                                  process_changes, main                  *)
(*                                  (the file never defines or imports     *)
(*                                  JobChange, so its two copies raise     *)
(*                                  NameError at their first query; the    *)
(*                                  model follows app.py's copies, whose   *)
(*                                  text is the same)                      *)
(*   src/scraper.py                 LinkedInScraper.scrape_company         *)
(*   src/.github/workflows/backend/main.py   create_job_change,            *)
(*                                  create_company, deactivate_company     *)
(*                                                                         *)
(* The specifications share the variables:                                 *)
(*   Spec           the crawl passes: scrape, process_changes,             *)
(*                  save_job_changes, one organization after the other     *)
(*   SpecApi        Spec plus the HTTP API's POST /job-changes/            *)
(*   SpecFaulty     Spec plus a commit of save_job_changes that fails      *)
(*   SpecScrape     the pagination loop of scrape_company                  *)
(*   SpecBatch      one run over the tracked organizations: main,          *)
(*                  scrape_multiple_companies, show_scrape_page            *)
(*   SpecCompanies  the organization table of the settings page and of     *)
(*                  the HTTP API                                           *)
(*   SpecTracked    SpecBatch plus the settings page's edits               *)
(*   SpecScrapeFair and SpecBatchFair add weak fairness of their steps.    *)
(***************************************************************************)
EXTENDS Integers, Sequences, FiniteSets, TLC

(***************************************************************************)
(* Bounds of the model.                                                    *)
(***************************************************************************)
\* longest list of records one scrape_company call hands to process_changes
MaxCards == 2
\* the clock stops the passes once it has ticked this often
MaxClock == 3
\* POST /job-changes/ requests the HTTP API handles
MaxApiRows == 1
\* largest configured result cap (max_results / MAX_RESULTS_PER_COMPANY)
MaxCap == 3
\* largest configured max_scrolls of scraper.py's LinkedInScraper
MaxScrolls == 2
\* most cards find_elements returns after one scroll
MaxPage == 2
\* most records one crawl accumulates over all its scrolls
MaxCollected == 4
\* batch runs over the same store
MaxRuns == 2

\* max_scrolls = 5 of run_scraper.py's and app.py's scrape_company
FixedMaxScrolls == 5

(***************************************************************************)
(* The values the page renders and the configuration names.                *)
(***************************************************************************)
\* the people a page shows, as <<name, profile_url>>: two share the name and
\* two share the profile_url, and all three are different identities
People == {<<"Alice", "P1">>, <<"Alice", "P2">>, <<"Bob", "P1">>}
Roles == {"Engineer", "Senior Engineer"}
\* COMPANIES_TO_TRACK: the names of the tracked organizations
Companies == {"OrgX", "OrgY"}

\* Python's None, in old_position
None == "None"

Min(a, b) == IF a <= b THEN a ELSE b

\* one dict of the list scrape_company returns
Employee(name, company, position, profile_url) ==
    [name |-> name, company |-> company, position |-> position,
     profile_url |-> profile_url]

\* the records a crawl of `company` can produce
RecordsOf(company) ==
    {Employee(q[1], company, r, q[2]) : q \in People, r \in Roles}

Records == UNION {RecordsOf(c) : c \in Companies}

\* all sequences over S of length at most n
SeqsUpTo(S, n) == UNION {[1..k -> S] : k \in 0..n}

VARIABLES
    store,        \* table job_changes: the committed rows, in insertion order
    clock,        \* datetime.now(timezone.utc), as a logical clock that
                  \* ticks once per iteration of process_changes' loop
    pc,           \* where the crawl pass of the current organization stands
    company,      \* the organization of the current pass
    employees,    \* what scrape_company returned in this pass
    changes,      \* what process_changes returned in this pass
    api_rows,     \* POST /job-changes/ requests handled
    variant,      \* which scrape_company runs: "scraper" or "run_scraper"
    max_results,  \* self.max_results / MAX_RESULTS_PER_COMPANY
    max_scrolls,  \* self.max_scrolls / max_scrolls
    scroll_count, \* scroll_count of scrape_company
    collected,    \* the local list `employees` of scrape_company
    employee_cards, \* what find_elements returned in the last iteration
    spc,          \* where scrape_company stands
    result,       \* what scrape_company returned
    outcome       \* "ok": it returned at its return statement;
                  \* "error": its except branch returned []

passVars == <<store, clock, pc, company, employees, changes, api_rows>>
scrapeVars == <<variant, max_results, max_scrolls, scroll_count, collected,
                employee_cards, spc, result, outcome>>

\* the state of one batch run over the tracked organizations
VARIABLES
    entry,        \* "main": run_scraper.main; "page": show_scrape_page of
                  \* .github/workflows/app.py; "multi": scraper.py's
                  \* LinkedInScraper(...).scrape_multiple_companies(...)
    tracked,      \* COMPANIES_TO_TRACK / the argument `companies`
    has_username, \* LINKEDIN_USERNAME is set and not empty
    has_password, \* LINKEDIN_PASSWORD is set and not empty
    bpc,          \* position of the batch run
    idx,          \* organizations the for loop has finished with
    driver,       \* self.driver: "none", "open" or "quit"
    current_url,  \* driver.current_url after the login form was submitted
    log,          \* what the run did to the browser and the logger, in order
    all_employees, \* the list scrape_multiple_companies returns
    batch_error,  \* the exception that ended the run, or "none"
    runs,         \* batch runs started so far
    total_changes, \* main's counter of the events it handed to the store
    summary,      \* << >>, or <<n>> once "Total changes found: n" is printed
    rows_before   \* rows the store held when the run started
reportVars == <<total_changes, summary, rows_before>>

\* the table companies and the HTTP API's last answer
VARIABLES
    companies,    \* the rows of table companies, in id order (id = index)
    http_status,  \* status of the last API response, "none" before the first
    last_request  \* the last request made of the application, and its argument
companyVars == <<companies, http_status, last_request>>
batchVars == <<entry, tracked, has_username, has_password, bpc, idx, driver,
               current_url, log, all_employees, batch_error, runs,
               total_changes, summary, rows_before>>
vars == <<store, clock, pc, company, employees, changes, api_rows,
          variant, max_results, max_scrolls, scroll_count, collected,
          employee_cards, spc, result, outcome,
          entry, tracked, has_username, has_password, bpc, idx, driver,
          current_url, log, all_employees, batch_error, runs,
          total_changes, summary, rows_before, companies, http_status,
          last_request>>

(***************************************************************************)
(* The record store: table job_changes.                                    *)
(***************************************************************************)
\* JobChange(...): the row save_job_changes builds from a change event.  It
\* never passes is_new, so the column takes its default, True.
JobChange(name, co, old_position, new_position, change_date, profile_url) ==
    [name |-> name, company |-> co, old_position |-> old_position,
     new_position |-> new_position, change_date |-> change_date,
     profile_url |-> profile_url, is_new |-> TRUE]

\* the filter of both queries: name, company and profile_url all equal
Matching(st, name, co, profile_url) ==
    {i \in 1..Len(st) : /\ st[i].name = name
                        /\ st[i].company = co
                        /\ st[i].profile_url = profile_url}

\* a lookup that forgets the profile_url filter
query_first_no_url(st, name, co, profile_url) ==
    IF {i \in 1..Len(st) : st[i].name = name /\ st[i].company = co} = {}
    THEN {0}
    ELSE {i \in 1..Len(st) : st[i].name = name /\ st[i].company = co}

\* db.query(JobChange).filter(...).first(): the query has no ORDER BY, so the
\* database may hand back any matching row.  The set holds the ids (indices)
\* of the rows first() can return, or 0 alone for None.
query_first(st, name, co, profile_url) ==
    IF Matching(st, name, co, profile_url) = {}
    THEN {0}
    ELSE Matching(st, name, co, profile_url)

\* the loop body without the test existing.new_position != position
change_for_unguarded(st, employee, existing, now) ==
    << [name |-> employee.name, company |-> employee.company,
        old_position |-> IF existing # 0 THEN st[existing].new_position
                         ELSE None,
        new_position |-> employee.position,
        change_date |-> now,
        profile_url |-> employee.profile_url] >>

\* The body of process_changes' loop for one employee, `existing` being what
\* first() returned (0 for None): the events it appends to `changes`.
change_for(st, employee, existing, now) ==
    IF existing # 0
    THEN IF st[existing].new_position # employee.position
         THEN << [name |-> employee.name, company |-> employee.company,
                  old_position |-> st[existing].new_position,
                  new_position |-> employee.position,
                  change_date |-> now,
                  profile_url |-> employee.profile_url] >>
         ELSE << >>
    ELSE << [name |-> employee.name, company |-> employee.company,
             old_position |-> None,
             new_position |-> employee.position,
             change_date |-> now,
             profile_url |-> employee.profile_url] >>

\* process_changes(employees): every list of change events the call can
\* return against the store st, the clock reading `now` at its first
\* iteration and ticking once per iteration.
RECURSIVE process_changes(_, _, _)
process_changes(st, emps, now) ==
    IF emps = << >>
    THEN { << >> }
    ELSE LET employee == Head(emps)
             heads == {change_for(st, employee, existing, now) :
                         existing \in query_first(st, employee.name,
                                                  employee.company,
                                                  employee.profile_url)}
         IN  {h \o rest : h \in heads,
                          rest \in process_changes(st, Tail(emps), now + 1)}

\* a save that adds every event, without the test `if not existing`
not_existing_unchecked(st, change) == TRUE

\* `if not existing` of save_job_changes: the session is made with
\* autoflush=False, so the query reads the committed rows only, never the
\* rows db.add() has queued earlier in the same call.
not_existing(st, change) ==
    query_first(st, change.name, change.company, change.profile_url) = {0}

\* a save that replaces the rows of the identities it is given
save_job_changes_upsert(st, chgs) ==
    SelectSeq(st, LAMBDA row :
                      \A i \in 1..Len(chgs) :
                          \/ row.name # chgs[i].name
                          \/ row.company # chgs[i].company
                          \/ row.profile_url # chgs[i].profile_url)
    \o [i \in 1..Len(chgs) |->
           JobChange(chgs[i].name, chgs[i].company, chgs[i].old_position,
                     chgs[i].new_position, chgs[i].change_date,
                     chgs[i].profile_url)]

\* save_job_changes(changes): the table after db.commit()
save_job_changes(st, chgs) ==
    LET added == SelectSeq(chgs, LAMBDA change : not_existing(st, change))
    IN  st \o [i \in 1..Len(added) |->
                 JobChange(added[i].name, added[i].company,
                           added[i].old_position, added[i].new_position,
                           added[i].change_date, added[i].profile_url)]

(***************************************************************************)
(* The crawl passes: the loop over COMPANIES_TO_TRACK of show_scrape_page   *)
(* and of main.                                                            *)
(***************************************************************************)
InitPass ==
    /\ store = << >>
    /\ clock = 0
    /\ pc = "idle"
    /\ company = "OrgX"
    /\ employees = << >>
    /\ changes = << >>
    /\ api_rows = 0

InitScrape ==
    /\ variant = "scraper"
    /\ max_results = 0
    /\ max_scrolls = 0
    /\ scroll_count = 0
    /\ collected = << >>
    /\ employee_cards = << >>
    /\ spc = "idle"
    /\ result = << >>
    /\ outcome = "ok"

\* no batch has been started
InitBatch ==
    /\ entry = "main"
    /\ tracked = << >>
    /\ has_username = TRUE
    /\ has_password = TRUE
    /\ bpc = "idle"
    /\ idx = 0
    /\ driver = "none"
    /\ current_url = "about:blank"
    /\ log = << >>
    /\ all_employees = << >>
    /\ batch_error = "none"
    /\ runs = 0
    /\ total_changes = 0
    /\ summary = << >>
    /\ rows_before = 0

\* a request: add, remove and create name the organization, deactivate and
\* get_company_changes give the id of its row
Request(op, name, company_id) ==
    [op |-> op, name |-> name, company_id |-> company_id]

\* create_all made the table companies; nothing was added
InitCompanies ==
    /\ companies = << >>
    /\ http_status = "none"
    /\ last_request = Request("none", "", 0)

Init == InitPass /\ InitScrape /\ InitBatch /\ InitCompanies

\* employees = scraper.scrape_company(company['name'], company['url']):
\* any list of the organization's records, repeats included
Scrape(co, emps) ==
    /\ pc \in {"idle", "saved"}
    /\ clock + Len(emps) <= MaxClock
    /\ company' = co
    /\ employees' = emps
    /\ changes' = << >>
    /\ pc' = "scraped"
    /\ UNCHANGED <<store, clock, api_rows>>
    /\ UNCHANGED scrapeVars
    /\ UNCHANGED companyVars
    /\ UNCHANGED batchVars

\* changes = process_changes(employees)
ProcessChanges ==
    /\ pc = "scraped"
    /\ changes' \in process_changes(store, employees, clock)
    /\ clock' = clock + Len(employees)
    /\ pc' = "processed"
    /\ UNCHANGED <<store, company, employees, api_rows>>
    /\ UNCHANGED scrapeVars
    /\ UNCHANGED companyVars
    /\ UNCHANGED batchVars

\* save_job_changes(changes); main calls it only `if changes`, and the call
\* with an empty list commits nothing
SaveJobChanges ==
    /\ pc = "processed"
    /\ store' = save_job_changes(store, changes)
    /\ pc' = "saved"
    /\ UNCHANGED <<clock, company, employees, changes, api_rows>>
    /\ UNCHANGED scrapeVars
    /\ UNCHANGED companyVars
    /\ UNCHANGED batchVars

Next ==
    \/ \E co \in Companies : \E emps \in SeqsUpTo(RecordsOf(co), MaxCards) :
           Scrape(co, emps)
    \/ ProcessChanges
    \/ SaveJobChanges

Spec == Init /\ [][Next]_vars

\* POST /job-changes/ (create_job_change).  backend/main.py defines the
\* table class JobChange (line 22) and then the response schema under the
\* same name (line 61), so JobChange(**job_change.dict()) builds the schema,
\* whose fields id, is_new, created_at and updated_at are required and
\* missing: the call raises ValidationError before db.add, and the store is
\* as it was.
create_job_change(st, job_change) == st

\* the request bodies the model posts; the same records serve as the change
\* events handed to save_job_changes directly
ApiPayloads ==
    {[name |-> "Alice", company |-> "OrgX", old_position |-> o,
      new_position |-> r, change_date |-> d, profile_url |-> "P1"] :
        o \in Roles \cup {None}, r \in Roles, d \in {0, MaxClock}}

CreateJobChange(job_change) ==
    /\ api_rows < MaxApiRows
    /\ store' = create_job_change(store, job_change)
    /\ api_rows' = api_rows + 1
    /\ http_status' = "500"
    /\ last_request' = Request("create_job_change", "", 0)
    /\ UNCHANGED companies
    /\ UNCHANGED <<clock, pc, company, employees, changes>>
    /\ UNCHANGED scrapeVars
    /\ UNCHANGED batchVars

\* a GET request: it changes no table; the client gets the status
Answer(handler, company_id, status) ==
    /\ http_status' = status
    /\ last_request' = Request(handler, "", company_id)
    /\ UNCHANGED companies
    /\ UNCHANGED <<passVars, scrapeVars, batchVars>>

\* GET /: the welcome message
ReadRoot == Answer("root", 0, "200")

\* GET /job-changes/, GET /stats/: db.query(JobChange) is given the
\* response schema (the name was rebound at line 61) and raises
GetJobChanges == Answer("get_job_changes", 0, "500")

GetStats == Answer("get_stats", 0, "500")

\* GET /companies/, GET /companies/{company_id}/changes/: db.query(Company)
\* is given the response schema (line 77) and raises, before any row is read
GetCompanies == Answer("get_companies", 0, "500")

GetCompanyChanges(company_id) == Answer("get_company_changes", company_id, "500")

NextApi ==
    \/ Next
    \/ \E job_change \in ApiPayloads : CreateJobChange(job_change)
    \/ ReadRoot
    \/ GetJobChanges
    \/ GetStats
    \/ GetCompanies
    \/ \E company_id \in 1..(Len(companies) + 1) :
           GetCompanyChanges(company_id)

SpecApi == Init /\ [][NextApi]_vars

\* a rollback that leaves the rows already added in the store
rollback_keeps_pending(committed, session) == session

\* db.rollback(): the rows added to the session since the last commit are
\* discarded; the store is what was committed
rollback(committed, session) == committed

\* save_job_changes when the database fails at step fail_at: at the query of
\* the fail_at-th event or, for fail_at = len(changes) + 1, at the commit.
\* The rows of the events before it were added to the session and none was
\* committed; the handler rolls back (and logs and raises again).
save_job_changes_failing(st, chgs, fail_at) ==
    rollback(st, save_job_changes(st, SubSeq(chgs, 1, fail_at - 1)))

\* save_job_changes(changes) raises: show_scrape_page's try block ends
SaveJobChangesFails(fail_at) ==
    /\ pc = "processed"
    /\ changes # << >>
    /\ fail_at \in 1..(Len(changes) + 1)
    /\ store' = save_job_changes_failing(store, changes, fail_at)
    /\ pc' = "failed"
    /\ UNCHANGED <<clock, company, employees, changes, api_rows>>
    /\ UNCHANGED scrapeVars
    /\ UNCHANGED batchVars
    /\ UNCHANGED companyVars

NextFaulty ==
    \/ Next
    \/ \E fail_at \in 1..(MaxCards + 1) : SaveJobChangesFails(fail_at)

\* the crawl passes with a database that can fail while saving
SpecFaulty == Init /\ [][NextFaulty]_vars

(***************************************************************************)
(* Properties of the change detector and of the store.                     *)
(***************************************************************************)
\* the stored rows of the identity of x (an employee, an event or a row)
RowsOf(st, x) ==
    {i \in 1..Len(st) : /\ st[i].name = x.name
                        /\ st[i].company = x.company
                        /\ st[i].profile_url = x.profile_url}

\* x and y name the same (name, company, profile_url)
SameIdentity(x, y) ==
    /\ x.name = y.name
    /\ x.company = y.company
    /\ x.profile_url = y.profile_url

\* the row of x's identity with the latest change_date
LatestRow(st, x) ==
    CHOOSE i \in RowsOf(st, x) :
        \A j \in RowsOf(st, x) : st[j].change_date <= st[i].change_date

\* the change event of employee e against the old role `old`, dated d
Event(e, old, d) ==
    [name |-> e.name, company |-> e.company, old_position |-> old,
     new_position |-> e.position, change_date |-> d,
     profile_url |-> e.profile_url]

\* C1: dedup idempotence.  After a pass over one scraped record whose result
\* save_job_changes has persisted, process_changes on the same record
\* yields no change event.
C1_DedupIdempotence ==
    (pc = "saved" /\ Len(employees) = 1)
        => process_changes(store, employees, clock) = { << >> }

\* C2: for every record and every store state, process_changes emits an
\* event with old role absent when the identity has no stored row, an event
\* with the stored role as old role when a stored row's role differs from
\* the record's, and nothing otherwise.
C2_Classification ==
    \A e \in Records :
        \A out \in process_changes(store, << e >>, clock) :
            IF RowsOf(store, e) = {}
            THEN out = << Event(e, None, clock) >>
            ELSE \/ /\ out = << >>
                    /\ \E i \in RowsOf(store, e) :
                           store[i].new_position = e.position
                 \/ \E i \in RowsOf(store, e) :
                        /\ store[i].new_position # e.position
                        /\ out = << Event(e, store[i].new_position, clock) >>

\* C2 witness: process_changes ran on two records against a store holding
\* their identity: one had a different stored role, one the same.
C2_Witness ==
    /\ pc = "processed"
    /\ Len(employees) = 2
    /\ Len(changes) = 1
    /\ changes[1].old_position \in Roles
    /\ \E e \in Records : RowsOf(store, e) = {}

\* C3: no change event, emitted or stored, has an old role equal to its new
\* role.
C3_NoSelfChange ==
    /\ \A i \in 1..Len(changes) :
           \/ changes[i].old_position = None
           \/ changes[i].old_position # changes[i].new_position
    /\ \A i \in 1..Len(store) :
           \/ store[i].old_position = None
           \/ store[i].old_position # store[i].new_position

\* C3 witness: process_changes met an unchanged record and a changed one,
\* and emitted the changed-role event only.
C3_Witness ==
    /\ pc = "processed"
    /\ \E i \in 1..Len(changes) : changes[i].old_position \in Roles
    /\ \E k \in 1..Len(employees) :
           \E i \in RowsOf(store, employees[k]) :
               store[i].new_position = employees[k].position

\* C4: every stored change event has is_new true exactly when its old role
\* is absent.
C4_IsNewIffNoOldRole ==
    \A i \in 1..Len(store) :
        store[i].is_new = (store[i].old_position = None)

\* C4 witness: a pass emitted a change from a previous role and saved; the
\* rows of that identity are first sightings, flagged new.
C4_Witness ==
    /\ pc = "saved"
    /\ \E i \in 1..Len(changes) :
           /\ changes[i].old_position \in Roles
           /\ RowsOf(store, changes[i]) # {}
           /\ \A k \in RowsOf(store, changes[i]) :
                  store[k].is_new /\ store[k].old_position = None

\* C5: the store holds at most one row per (name, company, profile_url,
\* new role).
C5_OneRowPerIdentityRole ==
    \A i, j \in 1..Len(store) :
        ( /\ store[i].name = store[j].name
          /\ store[i].company = store[j].company
          /\ store[i].profile_url = store[j].profile_url
          /\ store[i].new_position = store[j].new_position ) => i = j

\* C6: after a pass that emitted a change event for an identity and saved,
\* the most recent stored role of the identity is the newly observed role
\* (the role of the pass's last event for that identity).
C6_StoredRoleFollowsEvent ==
    pc = "saved" =>
        \A i \in 1..Len(changes) :
            (\A j \in (i + 1)..Len(changes) :
                 ~SameIdentity(changes[j], changes[i]))
            => /\ RowsOf(store, changes[i]) # {}
               /\ store[LatestRow(store, changes[i])].new_position
                      = changes[i].new_position

\* C7: save_job_changes called again with the list it has just saved leaves
\* the store as the first call left it.
C7_SaveIdempotent ==
    pc = "saved" => save_job_changes(store, changes) = store

\* C7 witness: the first call added rows for the events of the list.
C7_Witness ==
    /\ pc = "saved"
    /\ changes # << >>
    /\ \E i \in 1..Len(store) : store[i].change_date = changes[1].change_date
    /\ save_job_changes(store, changes) = store

\* what process_changes returns when each record is compared with the row
\* of the latest change_date
RECURSIVE DetectAgainstLatest(_, _, _)
DetectAgainstLatest(st, emps, now) ==
    IF emps = << >>
    THEN << >>
    ELSE LET e == Head(emps)
             first == IF RowsOf(st, e) = {}
                      THEN << Event(e, None, now) >>
                      ELSE IF st[LatestRow(st, e)].new_position # e.position
                           THEN << Event(e, st[LatestRow(st, e)].new_position,
                                         now) >>
                           ELSE << >>
         IN  first \o DetectAgainstLatest(st, Tail(emps), now + 1)

\* C8: with several stored rows for an identity, process_changes compares
\* the scraped role with the row of the latest change_date and reports that
\* row's role as the old role.
C8_ComparesAgainstLatest ==
    pc = "processed" =>
        changes = DetectAgainstLatest(store, employees,
                                      clock - Len(employees))

(***************************************************************************)
(* scrape_company: the pagination loop.                                    *)
(***************************************************************************)
\* a sub-element find_element does not find (NoSuchElementException)
Missing == "Missing"

\* the cards a people page renders: three members, and a card without its
\* subtitle element
Card(name, position, profile_url) ==
    [name |-> name, position |-> position, profile_url |-> profile_url]

GoodCards == {Card("Alice", "Engineer", "P1"),
              Card("Alice", "Senior Engineer", "P2"),
              Card("Bob", "Engineer", "P3")}

PageCards == GoodCards \cup {Card("Alice", Missing, "P1")}

\* the three find_element calls of the inner try all succeed
well_formed(card) ==
    /\ card.name # Missing
    /\ card.position # Missing
    /\ card.profile_url # Missing

\* what find_elements can return after a scroll: the cards now rendered, in
\* page order, no member listed twice on the same page
Pages ==
    {page \in SeqsUpTo(PageCards, MaxPage) :
        \A i, j \in 1..Len(page) :
            (well_formed(page[i]) /\ page[i] = page[j]) => i = j}

\* an inner loop that stops at the first card it cannot read
extract_cards_until_unreadable(page, co) ==
    LET bad == {i \in 1..Len(page) :
                   page[i].name = "Missing" \/ page[i].position = "Missing"
                       \/ page[i].profile_url = "Missing"}
        upto == IF bad = {} THEN Len(page)
                ELSE (CHOOSE i \in bad : \A j \in bad : i <= j) - 1
    IN  [i \in 1..upto |->
            Employee(page[i].name, co, page[i].position, page[i].profile_url)]

\* the inner for loop: one record appended per card whose three fields are
\* found, the other cards skipped (except NoSuchElementException: continue)
extract_cards(page, co) ==
    LET good == SelectSeq(page, well_formed)
    IN  [i \in 1..Len(good) |->
            Employee(good[i].name, co, good[i].position, good[i].profile_url)]

\* a slice one element too long
PySlice_one_more(s, stop) ==
    SubSeq(s, 1, Min(stop + 1, Len(s)))

\* Python's s[:stop]
PySlice(s, stop) ==
    IF stop >= 0
    THEN SubSeq(s, 1, Min(stop, Len(s)))
    ELSE SubSeq(s, 1, IF Len(s) + stop > 0 THEN Len(s) + stop ELSE 0)

\* a loop test that lets one scroll too many through
while_condition_inclusive(count, limit) == count <= limit

\* while scroll_count < max_scrolls
while_condition(count, limit) == count < limit

\* if len(employees) >= self.max_results: break -- scraper.py only;
\* run_scraper.py's and app.py's loop has no such test
break_on_cap(v, n, cap) == v = "scraper" /\ n >= cap

\* a handler that returns what had been collected before the failure
on_exception_returns_collected == [result |-> collected, outcome |-> "error"]

\* a handler that logs and raises again, as login's does
on_exception_reraise == [result |-> << >>, outcome |-> "raised"]

\* except Exception as e: logger.error(...); return []
on_exception == [result |-> << >>, outcome |-> "error"]

\* the call: scraper.py takes max_results and max_scrolls from its
\* constructor, run_scraper.py and app.py take MAX_RESULTS_PER_COMPANY from
\* the environment and scroll FixedMaxScrolls times
StartScrape(v, cap, ms) ==
    /\ spc \in {"idle", "returned"}
    /\ variant' = v
    /\ max_results' = cap
    /\ max_scrolls' = IF v = "scraper" THEN ms ELSE FixedMaxScrolls
    /\ scroll_count' = 0
    /\ collected' = << >>
    /\ employee_cards' = << >>
    /\ result' = << >>
    /\ outcome' = "ok"
    /\ spc' = "navigate"
    /\ UNCHANGED passVars
    /\ UNCHANGED batchVars
    /\ UNCHANGED companyVars

\* driver.get, the wait for the people tab, the click: all succeed
Navigate ==
    /\ spc = "navigate"
    /\ spc' = "loop"
    /\ UNCHANGED <<variant, max_results, max_scrolls, scroll_count,
                   collected, employee_cards, result, outcome>>
    /\ UNCHANGED passVars
    /\ UNCHANGED batchVars
    /\ UNCHANGED companyVars

\* one iteration of the while loop: scroll, read the rendered cards, count
\* the scroll and, in scraper.py only, break once max_results is reached
ScrollStep(page) ==
    /\ spc = "loop"
    /\ while_condition(scroll_count, max_scrolls)
    /\ Len(collected) + Len(extract_cards(page, company)) <= MaxCollected
    /\ employee_cards' = page
    /\ collected' = collected \o extract_cards(page, company)
    /\ scroll_count' = scroll_count + 1
    /\ spc' = IF break_on_cap(variant, Len(collected'), max_results)
              THEN "break"
              ELSE "loop"
    /\ UNCHANGED <<variant, max_results, max_scrolls, result, outcome>>
    /\ UNCHANGED passVars
    /\ UNCHANGED batchVars
    /\ UNCHANGED companyVars

\* return employees[:max_results]
ReturnEmployees ==
    /\ \/ spc = "loop" /\ ~while_condition(scroll_count, max_scrolls)
       \/ spc = "break"
    /\ result' = PySlice(collected, max_results)
    /\ outcome' = "ok"
    /\ spc' = "returned"
    /\ UNCHANGED <<variant, max_results, max_scrolls, scroll_count,
                   collected, employee_cards>>
    /\ UNCHANGED passVars
    /\ UNCHANGED batchVars
    /\ UNCHANGED companyVars

\* any exception of the navigation or of an iteration other than the
\* NoSuchElementException of a card: except Exception: return []
ScrapeFails ==
    /\ \/ spc = "navigate"
       \/ spc = "loop" /\ while_condition(scroll_count, max_scrolls)
    /\ result' = on_exception.result
    /\ outcome' = on_exception.outcome
    /\ spc' = "returned"
    /\ UNCHANGED <<variant, max_results, max_scrolls, scroll_count,
                   collected, employee_cards>>
    /\ UNCHANGED passVars
    /\ UNCHANGED batchVars
    /\ UNCHANGED companyVars

NextScrape ==
    \/ \E v \in {"scraper", "run_scraper"} :
           \E cap \in 0..MaxCap : \E ms \in 0..MaxScrolls :
               StartScrape(v, cap, ms)
    \/ Navigate
    \/ \E page \in Pages : ScrollStep(page)
    \/ ReturnEmployees
    \/ ScrapeFails

SpecScrape == Init /\ [][NextScrape]_vars

\* scrape_company runs on one thread that is never suspended for good: while
\* a step of it can be taken, one is taken
SpecScrapeFair == Init /\ [][NextScrape]_vars /\ WF_vars(NextScrape)

(***************************************************************************)
(* Properties of scrape_company.                                           *)
(***************************************************************************)
\* C9: scrape_company never returns more than the configured cap; a crawl
\* that reaches its return statement returns the first min(cap, n) of the n
\* records it accumulated, in the order it met them.
C9_CapRespected ==
    spc = "returned" =>
        /\ Len(result) <= max_results
        /\ outcome = "ok" =>
              /\ Len(result) = Min(max_results, Len(collected))
              /\ \A i \in 1..Len(result) : result[i] = collected[i]

\* C9 witness: cap 2, three records accumulated over two reveal steps, the
\* first two returned.
C9_Witness ==
    /\ spc = "returned"
    /\ outcome = "ok"
    /\ max_results = 2
    /\ scroll_count = 2
    /\ Len(collected) = 3
    /\ result = SubSeq(collected, 1, 2)

\* C10: the list scrape_company returns holds no two records with the same
\* profile_url.
C10_NoRepeatedProfile ==
    spc = "returned" =>
        \A i, j \in 1..Len(result) :
            result[i].profile_url = result[j].profile_url => i = j

\* C11: no reveal step is executed once the accumulated record count has
\* reached the (positive) result cap.
C11_NoStepAfterCap ==
    [][(max_results > 0 /\ scroll_count' = scroll_count + 1)
           => Len(collected) < max_results]_vars

\* C12: the pagination loop never executes more than max_scrolls reveal
\* steps, and a crawl that has entered the loop returns.
C12_BoundedAndTerminates ==
    /\ [](scroll_count <= max_scrolls)
    /\ (spc = "loop") ~> (spc = "returned")

\* C12 witness: the fixed five scrolls all ran, each rendering cards, more
\* cards than the cap in total, and the crawl returned.
C12_Witness ==
    /\ spc = "returned"
    /\ outcome = "ok"
    /\ variant = "run_scraper"
    /\ scroll_count = FixedMaxScrolls
    /\ Len(collected) > max_results
    /\ max_results > 0

\* a card lacks one of the three sub-elements
Unreadable(card) ==
    Missing \in {card.name, card.position, card.profile_url}

\* C13: of the n cards an iteration reads, k of them lacking a required
\* field, the n - k well-formed cards each yield a record, in page order,
\* and the crawl goes on to its return statement.
C13_PerCardIsolation ==
    ( /\ scroll_count >= 1
      /\ \/ spc \in {"loop", "break"}
         \/ spc = "returned" /\ outcome = "ok" )
    => LET n == Len(employee_cards)
           k == Cardinality({i \in 1..n : Unreadable(employee_cards[i])})
           good == SelectSeq(employee_cards, LAMBDA c : ~Unreadable(c))
           off == Len(collected) - (n - k)
       IN  /\ off >= 0
           /\ Len(good) = n - k
           /\ \A i \in 1..(n - k) :
                  collected[off + i] =
                      Employee(good[i].name, company, good[i].position,
                               good[i].profile_url)

\* C13 witness: the only page read held an unreadable card followed by a
\* readable one, and the crawl returned the readable card's record.
C13_Witness ==
    /\ spc = "returned"
    /\ outcome = "ok"
    /\ scroll_count = 1
    /\ Len(employee_cards) = 2
    /\ Unreadable(employee_cards[1])
    /\ ~Unreadable(employee_cards[2])
    /\ Len(result) = 1

\* C14: scrape_company never raises: whatever fails, the call returns, and
\* returns the empty list.
C14_NeverRaises ==
    /\ outcome \in {"ok", "error"}
    /\ (spc = "returned" /\ outcome = "error") => result = << >>

\* C14 witness: an iteration failed after records had been collected, and
\* the call returned [].
C14_Witness ==
    /\ spc = "returned"
    /\ outcome = "error"
    /\ scroll_count >= 1
    /\ Len(collected) >= 1
    /\ result = << >>

(***************************************************************************)
(* The batch run: one session, every tracked organization in turn.  Three  *)
(* entry points run it: run_scraper.main, show_scrape_page of              *)
(* .github/workflows/app.py (both with the LinkedInScraper class defined   *)
(* next to them) and scrape_multiple_companies of scraper.py.              *)
(***************************************************************************)
Entries == {"main", "page", "multi"}

\* the tracked lists the runs are checked with
TrackedLists ==
    {<< >>, <<"OrgA">>, <<"OrgA", "OrgB">>, <<"OrgA", "OrgB", "OrgC">>}

\* what scrape_company can return for an organization in a batch run
BatchEmployees(org) ==
    {<< >>} \cup {<<Employee("Alice", org, r, "P1")>> : r \in Roles}

\* where the browser can be after the login form was submitted
FeedUrl == "https://www.linkedin.com/feed/"
ChallengeUrl == "https://www.linkedin.com/checkpoint/challenge"
\* a challenge page whose address names the page to go to afterwards
ChallengeNextUrl ==
    "https://www.linkedin.com/checkpoint/challenge?next=%2Ffeed%2F"
LoginLandings == {FeedUrl, ChallengeUrl, ChallengeNextUrl}

\* one thing the run did: webdriver.Chrome ("launch"), driver.get ("get"),
\* the click on the submit button ("submit"), time.sleep between
\* organizations ("sleep"), driver.quit ("quit"), logger.error ("error")
Ev(op, arg) == [op |-> op, arg |-> arg]

\* a file in which the name JobChange is bound wherever it is used
JobChange_is_defined_everywhere(e) == TRUE

\* whether the name JobChange is bound in the file of the entry point:
\* run_scraper.py neither defines nor imports it
JobChange_is_defined(e) == e # "main"

\* if not COMPANIES_TO_TRACK: return -- run_scraper.main only
returns_when_nothing_tracked(e) == e = "main"

\* scraper.py's constructor raises ValueError when a credential is missing
\* and launches nothing; the other class's constructor calls setup_driver
constructor_checks_credentials(e) == e = "multi"

\* the other class reads the credentials in login, after driver.get
login_checks_credentials(e) == e \in {"main", "page"}

\* Python's sub in s for strings: sub occurs somewhere in s
str_in(sub, s) ==
    \E i \in 1..(Len(s) - Len(sub) + 1) :
        SubSeq(s, i, i + Len(sub) - 1) = sub

\* "feed" in self.driver.current_url
feed_in(url) == str_in("feed", url)

\* if "feed" not in self.driver.current_url: raise -- scraper.py only; the
\* login of run_scraper.py and app.py ends with the sleep
login_verified(e, url) == e = "multi" => feed_in(url)

\* how login ends: the exception it raises, or "ok"
login_outcome(e, u, p, form_ok, url) ==
    IF login_checks_credentials(e) /\ ~(u /\ p) THEN "ValueError"
    ELSE IF ~form_ok THEN "TimeoutException"
    ELSE IF ~login_verified(e, url) THEN "Exception"
    ELSE "ok"

\* a login handler that logs and carries on
on_login_exception_swallow == "return"

\* login's handler: logger.error(...); raise
on_login_exception == "raise"

\* an except clause that goes back into the loop
after_except_resume(e) == "loop"

\* where control goes when an exception reaches the except clause of the
\* run: main and scrape_multiple_companies have a finally that closes the
\* session, show_scrape_page has none
after_except(e) == IF e \in {"main", "multi"} THEN "finally" ELSE "done"

\* the run is started
StartBatch(e, tr, u, p) ==
    /\ bpc \in {"idle", "done"}
    /\ runs < MaxRuns
    /\ runs' = runs + 1
    /\ total_changes' = 0
    /\ summary' = << >>
    /\ rows_before' = Len(store)
    /\ entry' = e
    /\ tracked' = tr
    /\ has_username' = u
    /\ has_password' = p
    /\ bpc' = "construct"
    /\ idx' = 0
    /\ driver' = "none"
    /\ current_url' = "about:blank"
    /\ log' = << >>
    /\ all_employees' = << >>
    /\ batch_error' = "none"
    /\ employees' = << >>
    /\ changes' = << >>
    /\ UNCHANGED <<store, clock, pc, company, api_rows>>
    /\ UNCHANGED scrapeVars
    /\ UNCHANGED companyVars

\* up to the constructed scraper.  main returns at once when nothing is
\* tracked; its constructor call stands before the try, so a browser that
\* fails to start ends main with the exception.  show_scrape_page constructs
\* inside its try.  scraper.py's constructor only checks the credentials.
Construct(launch_ok) ==
    /\ bpc = "construct"
    /\ IF returns_when_nothing_tracked(entry) /\ tracked = << >>
       THEN /\ bpc' = "done"
            /\ UNCHANGED <<driver, log, batch_error>>
       ELSE IF constructor_checks_credentials(entry)
       THEN IF has_username /\ has_password
            THEN /\ bpc' = "setup"
                 /\ UNCHANGED <<driver, log, batch_error>>
            ELSE /\ bpc' = "done"
                 /\ batch_error' = "ValueError"
                 /\ UNCHANGED <<driver, log>>
       ELSE IF launch_ok
       THEN /\ driver' = "open"
            /\ log' = Append(log, Ev("launch", "chrome"))
            /\ bpc' = "login"
            /\ UNCHANGED batch_error
       ELSE /\ batch_error' = "WebDriverException"
            /\ bpc' = "done"
            /\ log' = IF entry = "page"
                      THEN Append(log, Ev("error", "batch"))
                      ELSE log
            /\ UNCHANGED driver
    /\ UNCHANGED <<entry, tracked, has_username, has_password, idx,
                   current_url, all_employees, runs>>
    /\ UNCHANGED passVars
    /\ UNCHANGED reportVars
    /\ UNCHANGED scrapeVars
    /\ UNCHANGED companyVars

\* self.setup_driver() at the head of scrape_multiple_companies
SetupDriver(launch_ok) ==
    /\ bpc = "setup"
    /\ IF launch_ok
       THEN /\ driver' = "open"
            /\ log' = Append(log, Ev("launch", "chrome"))
            /\ bpc' = "login"
            /\ UNCHANGED batch_error
       ELSE /\ batch_error' = "WebDriverException"
            /\ log' = log \o <<Ev("error", "setup_driver"), Ev("error", "batch")>>
            /\ bpc' = after_except(entry)
            /\ UNCHANGED driver
    /\ UNCHANGED <<entry, tracked, has_username, has_password, idx,
                   current_url, all_employees, runs>>
    /\ UNCHANGED passVars
    /\ UNCHANGED reportVars
    /\ UNCHANGED scrapeVars
    /\ UNCHANGED companyVars

\* scraper.login(): the login page is loaded first; the form is submitted
\* unless a credential is missing or the form does not appear; an exception
\* is logged and raised again, which ends the try block of the run
Login(form_ok, url) ==
    /\ bpc = "login"
    /\ LET how == login_outcome(entry, has_username, has_password, form_ok,
                                url)
           submitted == how \in {"ok", "Exception"}
           visited == IF submitted
                      THEN log \o <<Ev("get", "login"), Ev("submit", "login")>>
                      ELSE Append(log, Ev("get", "login"))
       IN  /\ current_url' = IF submitted THEN url
                             ELSE "https://www.linkedin.com/login"
           /\ IF how = "ok"
              THEN /\ log' = visited
                   /\ bpc' = "loop"
                   /\ UNCHANGED batch_error
              ELSE IF on_login_exception = "raise"
              THEN /\ log' = visited \o <<Ev("error", "login"),
                                         Ev("error", "batch")>>
                   /\ batch_error' = how
                   /\ bpc' = after_except(entry)
              ELSE /\ log' = Append(visited, Ev("error", "login"))
                   /\ bpc' = "loop"
                   /\ UNCHANGED batch_error
    /\ UNCHANGED <<entry, tracked, has_username, has_password, idx, driver,
                   all_employees, runs>>
    /\ UNCHANGED passVars
    /\ UNCHANGED reportVars
    /\ UNCHANGED scrapeVars
    /\ UNCHANGED companyVars

\* a crawl that hands back what it had read when it fails half-way
crawl_result_partial(ok, emps) == emps

\* what scrape_company returns: the records it read, or, when something
\* failed after it had read emps, what its except clause returns
crawl_result(ok, emps) == IF ok THEN emps ELSE on_exception.result

\* one iteration of the for loop up to the return of scrape_company, which
\* hands back the records it read, or [] after logging the error it caught.
\* scrape_multiple_companies extends its list and sleeps; the other two go
\* on to process_changes.
ScrapeCompany(emps, ok) ==
    /\ bpc = "loop"
    /\ idx < Len(tracked)
    /\ emps \in BatchEmployees(tracked[idx + 1])
    /\ clock + Len(crawl_result(ok, emps)) <= MaxClock
    /\ LET org == tracked[idx + 1]
           got == crawl_result(ok, emps)
           visited == IF ok THEN Append(log, Ev("get", org))
                      ELSE log \o <<Ev("get", org), Ev("error", org)>>
       IN  IF entry = "multi"
           THEN /\ all_employees' = all_employees \o got
                /\ log' = Append(visited, Ev("sleep", org))
                /\ idx' = idx + 1
                /\ UNCHANGED <<bpc, company, employees, changes>>
           ELSE /\ company' = org
                /\ employees' = got
                /\ changes' = << >>
                /\ log' = visited
                /\ bpc' = "process"
                /\ UNCHANGED <<idx, all_employees>>
    /\ UNCHANGED <<entry, tracked, has_username, has_password, driver,
                   current_url, batch_error, runs>>
    /\ UNCHANGED <<store, clock, pc, api_rows>>
    /\ UNCHANGED reportVars
    /\ UNCHANGED scrapeVars
    /\ UNCHANGED companyVars

\* changes = process_changes(employees).  run_scraper.py never defines or
\* imports JobChange, so there the first query raises NameError; with no
\* employees the loop body is not entered, changes is [] and main skips the
\* save.  In app.py the query can fail with a database error.  Either
\* exception leaves the for loop for the except clause of the run.
ProcessOrg(db_ok) ==
    /\ bpc = "process"
    /\ IF employees = << >>
       THEN /\ db_ok
            /\ changes' = << >>
            /\ IF entry = "main"
               THEN idx' = idx + 1 /\ bpc' = "loop"
               ELSE idx' = idx /\ bpc' = "save"
            /\ UNCHANGED <<clock, log, batch_error>>
       ELSE IF ~JobChange_is_defined(entry) \/ ~db_ok
       THEN /\ batch_error' = IF ~JobChange_is_defined(entry)
                              THEN "NameError"
                              ELSE "OperationalError"
            /\ log' = Append(log, Ev("error", "batch"))
            /\ bpc' = after_except(entry)
            /\ UNCHANGED <<clock, changes, idx>>
       ELSE /\ changes' \in process_changes(store, employees, clock)
            /\ clock' = clock + Len(employees)
            /\ bpc' = "save"
            /\ UNCHANGED <<idx, log, batch_error>>
    /\ UNCHANGED <<entry, tracked, has_username, has_password, driver,
                   current_url, all_employees, runs>>
    /\ UNCHANGED <<store, pc, company, employees, api_rows>>
    /\ UNCHANGED reportVars
    /\ UNCHANGED scrapeVars
    /\ UNCHANGED companyVars

\* save_job_changes(changes): commits, or rolls back, logs and raises again;
\* the exception leaves the for loop for the except clause of the run.
\* After a save that returned main adds len(changes) to total_changes.
SaveOrg(db_ok) ==
    /\ bpc = "save"
    /\ db_ok \/ changes # << >>
    /\ IF db_ok
       THEN /\ store' = save_job_changes(store, changes)
            /\ idx' = idx + 1
            /\ bpc' = "loop"
            /\ UNCHANGED <<log, batch_error>>
       ELSE /\ store' = save_job_changes_failing(store, changes,
                                                   Len(changes) + 1)
            /\ batch_error' = "OperationalError"
            /\ log' = log \o <<Ev("error", "save_job_changes"),
                               Ev("error", "batch")>>
            /\ bpc' = after_except(entry)
            /\ UNCHANGED idx
    /\ UNCHANGED <<entry, tracked, has_username, has_password, driver,
                   current_url, all_employees, runs>>
    /\ UNCHANGED <<clock, pc, company, employees, changes, api_rows>>
    /\ total_changes' = IF entry = "main" /\ db_ok
                        THEN total_changes + Len(changes)
                        ELSE total_changes
    /\ UNCHANGED <<summary, rows_before>>
    /\ UNCHANGED scrapeVars
    /\ UNCHANGED companyVars

\* the for loop is exhausted: main prints its summary with total_changes;
\* show_scrape_page closes the scraper here,
\* inside its try, so a quit that raises is reported by its except clause;
\* the other two reach their finally
LoopEnd(quit_ok) ==
    /\ bpc = "loop"
    /\ idx = Len(tracked)
    /\ IF entry = "page"
       THEN /\ bpc' = "done"
            /\ IF quit_ok
               THEN /\ driver' = "quit"
                    /\ log' = Append(log, Ev("quit", "chrome"))
                    /\ UNCHANGED batch_error
               ELSE /\ log' = log \o <<Ev("quit", "chrome"),
                                       Ev("error", "batch")>>
                    /\ batch_error' = "WebDriverException"
                    /\ UNCHANGED driver
       ELSE /\ quit_ok
            /\ bpc' = "finally"
            /\ UNCHANGED <<driver, log, batch_error>>
    /\ UNCHANGED <<entry, tracked, has_username, has_password, idx,
                   current_url, all_employees, runs>>
    /\ UNCHANGED passVars
    /\ summary' = IF entry = "main" THEN <<total_changes>> ELSE summary
    /\ UNCHANGED <<total_changes, rows_before>>
    /\ UNCHANGED scrapeVars
    /\ UNCHANGED companyVars

\* finally: scraper.close() -- if self.driver: self.driver.quit().  close
\* has no handler: when quit raises, the exception leaves the finally clause
\* and the entry point, in place of the return value or of the error that
\* had been handled.
Close(quit_ok) ==
    /\ bpc = "finally"
    /\ IF driver = "open"
       THEN /\ log' = Append(log, Ev("quit", "chrome"))
            /\ IF quit_ok
               THEN driver' = "quit" /\ UNCHANGED batch_error
               ELSE batch_error' = "WebDriverException" /\ UNCHANGED driver
       ELSE quit_ok /\ UNCHANGED <<driver, log, batch_error>>
    /\ bpc' = "done"
    /\ UNCHANGED <<entry, tracked, has_username, has_password, idx,
                   current_url, all_employees, runs>>
    /\ UNCHANGED passVars
    /\ UNCHANGED reportVars
    /\ UNCHANGED scrapeVars
    /\ UNCHANGED companyVars

NextBatch ==
    \/ \E e \in Entries, tr \in TrackedLists, u \in BOOLEAN, p \in BOOLEAN :
           StartBatch(e, tr, u, p)
    \/ \E launch_ok \in BOOLEAN : Construct(launch_ok)
    \/ \E launch_ok \in BOOLEAN : SetupDriver(launch_ok)
    \/ \E form_ok \in BOOLEAN, url \in LoginLandings : Login(form_ok, url)
    \/ \E emps \in UNION {BatchEmployees(o) : o \in {"OrgA", "OrgB", "OrgC"}},
          ok \in BOOLEAN : ScrapeCompany(emps, ok)
    \/ \E db_ok \in BOOLEAN : ProcessOrg(db_ok)
    \/ \E db_ok \in BOOLEAN : SaveOrg(db_ok)
    \/ \E quit_ok \in BOOLEAN : LoopEnd(quit_ok)
    \/ \E quit_ok \in BOOLEAN : Close(quit_ok)

SpecBatch == Init /\ [][NextBatch]_vars

\* the run is one thread that is never suspended for good
SpecBatchFair == Init /\ [][NextBatch]_vars /\ WF_vars(NextBatch)

BatchTypeOK ==
    /\ entry \in Entries
    /\ tracked \in TrackedLists
    /\ bpc \in {"idle", "construct", "setup", "login", "loop", "process",
                "save", "finally", "done"}
    /\ idx \in 0..Len(tracked)
    /\ driver \in {"none", "open", "quit"}

\* the crawl of the i-th tracked organization was attempted / failed
Visited(i) ==
    /\ i \in 1..Len(tracked)
    /\ \E k \in 1..Len(log) : log[k] = Ev("get", tracked[i])
CrawlFailedAt(i) ==
    /\ i \in 1..Len(tracked)
    /\ \E k \in 1..(Len(log) - 1) :
           /\ log[k] = Ev("get", tracked[i])
           /\ log[k + 1] = Ev("error", tracked[i])

\* C15: when the crawl of one organization fails, the store keeps the rows
\* of the organizations before it, the failed organization adds no row and
\* no record, the run is not ended by it, and the next organization is
\* crawled.
C15_OrganizationIsolation ==
    /\ [][(idx < Len(tracked) /\ CrawlFailedAt(idx + 1))
              => store' = store]_vars
    /\ [][(bpc = "loop" /\ idx < Len(tracked) /\ Len(log') >= Len(log) + 2
               /\ log'[Len(log) + 2] = Ev("error", tracked[idx + 1]))
              => /\ store' = store
                 /\ all_employees' = all_employees
                 /\ entry # "multi" => employees' = << >>
                 /\ batch_error' = "none"
                 /\ bpc' \in {"loop", "process"}]_vars
    /\ \A i \in 1..2 :
           (i < Len(tracked) /\ CrawlFailedAt(i)) ~> Visited(i + 1)

\* C15 witness: a run through OrgA, OrgB, OrgC ended without error; OrgA's
\* and OrgC's first sightings are stored, OrgB's crawl failed and OrgB has
\* no row.
C15_Witness ==
    /\ bpc = "done"
    /\ entry = "page"
    /\ batch_error = "none"
    /\ Len(tracked) = 3
    /\ CrawlFailedAt(2)
    /\ ~CrawlFailedAt(1)
    /\ ~CrawlFailedAt(3)
    /\ \E k \in 1..Len(store) : store[k].company = "OrgA"
    /\ \E k \in 1..Len(store) : store[k].company = "OrgC"
    /\ \A k \in 1..Len(store) : store[k].company # "OrgB"

\* C16: a database error while one organization's records are diffed or
\* saved does not end the run: every tracked organization is still crawled.
C16_StoreErrorContained ==
    (bpc \in {"finally", "done"} /\ batch_error = "OperationalError")
        => \A i \in 1..Len(tracked) : Visited(i)

\* C17: a run over an empty tracked list (both credentials configured)
\* acquires no browser session, loads no page and submits no login form.
C17_EmptyListNoWork ==
    (bpc # "idle" /\ tracked = << >> /\ has_username /\ has_password)
    => /\ driver = "none"
       /\ \A k \in 1..Len(log) :
              log[k].op \notin {"launch", "get", "submit"}

\* login raised in this run
LoginFailed ==
    \E k \in 1..Len(log) : log[k] = Ev("error", "login")

\* C18: once login has failed, no tracked organization is ever navigated
\* to in the run, the login page was loaded once only, the run is past its
\* loop, and it ends.
C18_LoginFailureIsFatal ==
    /\ [](LoginFailed =>
             /\ \A i \in 1..Len(tracked) : ~Visited(i)
             /\ Cardinality({k \in 1..Len(log) :
                                log[k] = Ev("get", "login")}) = 1
             /\ bpc \in {"finally", "done"})
    /\ LoginFailed ~> (bpc = "done")

\* C18 witness: three organizations tracked, the login form never appeared,
\* the run ended with that error and the session closed.
C18_Witness ==
    /\ bpc = "done"
    /\ LoginFailed
    /\ Len(tracked) = 3
    /\ batch_error = "TimeoutException"
    /\ driver = "quit"

\* C19: when the browser is not on the logged-in page after the login form
\* was submitted, no organization is crawled in that session.
C19_RejectedLoginNoCrawl ==
    ( /\ \E k \in 1..Len(log) : log[k] = Ev("submit", "login")
      /\ current_url # FeedUrl )
    => \A i \in 1..Len(tracked) : ~Visited(i)

\* C20: a run over a non-empty tracked list started with a credential
\* missing launches no driver and loads no page.
C20_MissingCredentialNoBrowser ==
    (bpc # "idle" /\ tracked # << >> /\ ~(has_username /\ has_password))
    => /\ driver = "none"
       /\ \A k \in 1..Len(log) : log[k].op \notin {"launch", "get"}

\* driver.quit() calls of the run
Quits == {k \in 1..Len(log) : log[k].op = "quit"}

\* C21: a run (credentials configured, something tracked) that has ended
\* and had launched a browser has called quit on it exactly once.
C21_ReleasedExactlyOnce ==
    ( /\ bpc = "done"
      /\ has_username /\ has_password /\ tracked # << >>
      /\ \E k \in 1..Len(log) : log[k].op = "launch" )
    => Cardinality(Quits) = 1

\* C22: closing the session in the finally clause never changes how the run
\* ends: no exception of quit replaces the run's result or error.
C22_ReleaseNeverThrows ==
    [][bpc = "finally" => batch_error' = batch_error]_vars

\* C23: whenever two tracked organizations have been navigated to one after
\* the other, the run slept between the two navigations.
C23_DelayBetweenOrganizations ==
    \A i \in 1..(Len(tracked) - 1) :
        \A k, m \in 1..Len(log) :
            (log[k] = Ev("get", tracked[i])
                 /\ log[m] = Ev("get", tracked[i + 1]))
            => \E d \in (k + 1)..(m - 1) : log[d].op = "sleep"

CompanyNames == {"OrgA", "OrgB", "OrgC"}

\* Company(name=name, linkedin_url=url): is_active takes its default, True
Company(name, linkedin_url) ==
    [name |-> name, linkedin_url |-> linkedin_url, is_active |-> TRUE]

\* add_company: the column name is unique, so the commit of a second row of
\* the same name raises IntegrityError and adds nothing
add_company(cs, name, url) ==
    IF \E i \in 1..Len(cs) : cs[i].name = name
    THEN cs
    ELSE Append(cs, Company(name, url))

\* a removal that deletes the row
remove_company_delete(cs, name) ==
    SelectSeq(cs, LAMBDA c : c.name # name)

\* remove_company: the row of that name, if there is one, gets
\* is_active = False
remove_company(cs, name) ==
    [i \in 1..Len(cs) |->
        IF cs[i].name = name THEN [cs[i] EXCEPT !.is_active = FALSE]
        ELSE cs[i]]

\* get_companies: the names of the active rows
get_companies(cs) ==
    {cs[i].name : i \in {j \in 1..Len(cs) : cs[j].is_active}}

\* PUT /companies/{company_id}/deactivate.  backend/main.py rebinds the
\* name Company to the response schema (line 77), so db.query(Company)
\* raises before any row is read: the table is as it was and the client gets
\* status 500.
deactivate_company(cs, company_id) == cs

\* POST /companies/: Company(**company.dict()) builds the response schema,
\* whose fields id, is_active, created_at and updated_at are missing:
\* ValidationError, status 500, no row
create_company(cs, company_create) == cs

AddCompany(name) ==
    /\ companies' = add_company(companies, name, "https://www.linkedin.com/company")
    /\ last_request' = Request("add", name, 0)
    /\ UNCHANGED http_status
    /\ UNCHANGED <<passVars, scrapeVars, batchVars>>

RemoveCompany(name) ==
    /\ companies' = remove_company(companies, name)
    /\ last_request' = Request("remove", name, 0)
    /\ UNCHANGED http_status
    /\ UNCHANGED <<passVars, scrapeVars, batchVars>>

DeactivateCompany(company_id) ==
    /\ companies' = deactivate_company(companies, company_id)
    /\ last_request' = Request("deactivate", "", company_id)
    /\ http_status' = "500"
    /\ UNCHANGED <<passVars, scrapeVars, batchVars>>

CreateCompany(name) ==
    /\ companies' = create_company(companies, Company(name, "https://www.linkedin.com/company"))
    /\ last_request' = Request("create", name, 0)
    /\ http_status' = "500"
    /\ UNCHANGED <<passVars, scrapeVars, batchVars>>

NextCompanies ==
    \/ \E name \in CompanyNames : AddCompany(name)
    \/ \E name \in CompanyNames : RemoveCompany(name)
    \/ \E company_id \in 1..(Len(companies) + 1) :
           DeactivateCompany(company_id)
    \/ \E name \in CompanyNames : CreateCompany(name)
    \/ ReadRoot
    \/ GetJobChanges
    \/ GetStats
    \/ GetCompanies
    \/ \E company_id \in 1..(Len(companies) + 1) :
           GetCompanyChanges(company_id)

SpecCompanies == Init /\ [][NextCompanies]_vars

\* C25: no operation on the tracked organizations ever deletes a row: the
\* table never gets shorter and every row keeps its place, name and URL;
\* after a removal the rows of that name are inactive, and after a
\* deactivation the row of that id is inactive.
C25_SoftDeleteOnly ==
    [][/\ Len(companies') >= Len(companies)
       /\ \A i \in 1..Len(companies) :
              /\ companies'[i].name = companies[i].name
              /\ companies'[i].linkedin_url = companies[i].linkedin_url
       /\ \A i \in 1..Len(companies') :
              /\ ( /\ last_request'.op = "remove"
                   /\ last_request'.name = companies'[i].name )
                 => ~companies'[i].is_active
              /\ ( /\ last_request'.op = "deactivate"
                   /\ last_request'.company_id = i )
                 => ~companies'[i].is_active]_vars

\* The settings page and the batch runs of the same application: another
\* session adds or removes an organization at any moment, before, during or
\* after a run; the runs take their list from COMPANIES_TO_TRACK, which no
\* operation on the table touches.
AddTracked == AddCompany("OrgA")

RemoveTracked == RemoveCompany("OrgA")

NextTracked ==
    \/ NextBatch
    \/ AddTracked
    \/ RemoveTracked

SpecTracked == Init /\ [][NextTracked]_vars

\* C26: a run never navigates to an organization whose row in the table
\* companies is inactive.
C26_InactiveNotCrawled ==
    [][\A o \in CompanyNames :
           (Len(log') > Len(log) /\ log'[Len(log) + 1] = Ev("get", o))
           => ~\E i \in 1..Len(companies) :
                  companies[i].name = o /\ ~companies[i].is_active]_vars

\* C27: a call of save_job_changes that fails leaves the store exactly as
\* it was, whatever it had added before the failure, and the failure reaches
\* the caller.
C27_SaveAllOrNothing ==
    [][(pc = "processed" /\ pc' = "failed") => store' = store]_vars

\* C27 witness: a save of two first sightings failed, and neither has a row.
C27_Witness ==
    /\ pc = "failed"
    /\ Len(changes) = 2
    /\ \A i \in 1..2 : changes[i].old_position = None
    /\ ~SameIdentity(changes[1], changes[2])
    /\ \A i \in 1..2 : RowsOf(store, changes[i]) = {}

\* C28: every step of the crawl passes leaves each committed row where and
\* as it was, and process_changes leaves the whole store as it was.
C28_StoreAppendOnly ==
    [][/\ Len(store') >= Len(store)
       /\ \A i \in 1..Len(store) : store'[i] = store[i]
       /\ pc = "scraped" => store' = store]_vars

\* C28 witness: a save was given a changed-role event of an identity that
\* has a row, and the row is as it was committed.
C28_Witness ==
    /\ pc = "saved"
    /\ \E i \in 1..Len(changes) :
           /\ changes[i].old_position # None
           /\ \E k \in RowsOf(store, changes[i]) :
                  store[k].new_position = changes[i].old_position

\* C29: a crawl that fails returns the empty list, whatever it had
\* collected; a non-empty list is returned only at the return statement,
\* after the loop ran out of scrolls or stopped at the cap.
C29_FailureReturnsNothing ==
    spc = "returned" =>
        /\ outcome # "ok" => result = << >>
        /\ result # << >> =>
               /\ outcome = "ok"
               /\ \/ ~while_condition(scroll_count, max_scrolls)
                  \/ break_on_cap(variant, Len(collected), max_results)

\* C29 witness: two records had been collected in the first of several
\* scrolls when the crawl failed; it returned [].
C29_Witness ==
    /\ spc = "returned"
    /\ outcome = "error"
    /\ scroll_count = 1
    /\ scroll_count < max_scrolls
    /\ Len(collected) = 2
    /\ max_results >= 2
    /\ result = << >>

\* C30: every navigation to an organization comes after the browser was
\* launched and the login form submitted, with no login error and no quit
\* before it; while an organization's records are diffed and saved the
\* browser is open.
C30_CrawlOnLiveSession ==
    /\ \A k \in 1..Len(log) :
           (log[k].op = "get" /\ log[k].arg # "login")
           => /\ \E a \in 1..(k - 1) : log[a].op = "launch"
              /\ \E b \in 1..(k - 1) : log[b] = Ev("submit", "login")
              /\ \A j \in 1..(k - 1) :
                     log[j] # Ev("error", "login") /\ log[j].op # "quit"
    /\ bpc \in {"loop", "process", "save"} => driver = "open"

\* C30 witness: a run of scrape_multiple_companies crawled its three
\* organizations and closed the browser.
C30_Witness ==
    /\ bpc = "done"
    /\ entry = "multi"
    /\ Len(tracked) = 3
    /\ \A i \in 1..3 : Visited(i)
    /\ driver = "quit"
    /\ batch_error = "none"


====
